---- MODULE Spec2Model ----
(***************************************************************************)
(* Price_Tracker: the scraping subsystem.                                  *)
(*   - BaseScraper (session scope, _make_request, _parse_price,            *)
(*     _is_promotional)                                                    *)
(*   - the five retailer extractors (search_product, get_product_price,    *)
(*     _extract_product_data, _extract_product_detail_data)                *)
(*   - ScraperService (search_all_retailers, _search_retailer,             *)
(*     get_product_price)                                                  *)
(*                                                                         *)
(* Text is a sequence of one-character strings.  A float is a record       *)
(* [n, d] meaning n / 10^d with no trailing zero in the fraction, so that  *)
(* record equality is numeric equality.  Optional values are << >> (None)  *)
(* or <<v>>.                                                               *)
(***************************************************************************)
EXTENDS Integers, Sequences, FiniteSets, TLC

\* ------------------------------------------------------------------ bounds
MaxRequested == 2      \* longest explicit retailer list passed to the service
MaxRegistered == 2     \* most leading entries of the registry enabled
MaxEntries == 2        \* most product elements in a search-results document

\* --------------------------------------------------------------- constants
EmagMaxProducts == 50   \* products[:50]
OtherMaxProducts == 15  \* products[:15]
EmagTargetCount == 5    \* extracted_count >= 5

None == << >>
Some(v) == <<v>>
IsNone(o) == o = << >>
Val(o) == o[1]

\* ---------------------------------------------------------------- floats
RECURSIVE Pow10(_)
Pow10(k) == IF k = 0 THEN 1 ELSE 10 * Pow10(k - 1)

RECURSIVE Normalize(_)
Normalize(f) ==
    IF f.d > 0 /\ f.n % 10 = 0 THEN Normalize([n |-> f.n \div 10, d |-> f.d - 1])
    ELSE f

FloatLess(a, b) == a.n * Pow10(b.d) < b.n * Pow10(a.d)
FloatIsZero_never(a) == FALSE

\* "not x" on a float: true for 0.0
FloatIsZero(a) == a.n = 0

\* ------------------------------------------------------------------ text
Digits == {"0", "1", "2", "3", "4", "5", "6", "7", "8", "9"}

DigitVal(c) ==
    CASE c = "0" -> 0 [] c = "1" -> 1 [] c = "2" -> 2 [] c = "3" -> 3
      [] c = "4" -> 4 [] c = "5" -> 5 [] c = "6" -> 6 [] c = "7" -> 7
      [] c = "8" -> 8 [] c = "9" -> 9

\* str.lower() on the letters that occur in the modelled texts
LowerChar(c) ==
    CASE c = "L" -> "l" [] c = "E" -> "e" [] c = "I" -> "i"
      [] c = "R" -> "r" [] c = "O" -> "o" [] c = "N" -> "n"
      [] c = "U" -> "u" [] c = "A" -> "a"
      [] OTHER -> c

Lower(s) == [i \in 1..Len(s) |-> LowerChar(s[i])]

\* the alternatives of the regular expression (lei|ron|eur|<euro sign>)
\* (the fourth alternative is three non-ASCII characters in the source, each
\* written here as one named character)
CurrencyTokens ==
    << <<"l", "e", "i">>, <<"r", "o", "n">>, <<"e", "u", "r">>,
       <<"a-circumflex", "low-quote", "not-sign">> >>

StartsWith(s, t) == Len(s) >= Len(t) /\ SubSeq(s, 1, Len(t)) = t

Drop(s, k) == SubSeq(s, k + 1, Len(s))

\* re.sub(tokens, '', s): leftmost non-overlapping matches are removed
RECURSIVE StripTokens(_)
StripTokens(s) ==
    IF s = << >> THEN << >>
    ELSE IF \E k \in 1..Len(CurrencyTokens) : StartsWith(s, CurrencyTokens[k])
         THEN LET k == CHOOSE j \in 1..Len(CurrencyTokens) :
                         /\ StartsWith(s, CurrencyTokens[j])
                         /\ \A i \in 1..(j - 1) : ~StartsWith(s, CurrencyTokens[i])
              IN StripTokens(Drop(s, Len(CurrencyTokens[k])))
         ELSE <<Head(s)>> \o StripTokens(Tail(s))

\* str.strip()
RECURSIVE LStrip(_)
LStrip(s) == IF s # << >> /\ Head(s) = " " THEN LStrip(Tail(s)) ELSE s

RECURSIVE RStrip(_)
RStrip(s) ==
    IF s # << >> /\ s[Len(s)] = " " THEN RStrip(SubSeq(s, 1, Len(s) - 1)) ELSE s

Strip(s) == RStrip(LStrip(s))

\* str.replace(a, '') for a single character
RECURSIVE RemoveChar(_, _)
RemoveChar(s, a) ==
    IF s = << >> THEN << >>
    ELSE IF Head(s) = a THEN RemoveChar(Tail(s), a)
    ELSE <<Head(s)>> \o RemoveChar(Tail(s), a)

ReplaceChar_keep(s, a, b) == s

\* str.replace(a, b) for single characters
ReplaceChar(s, a, b) == [i \in 1..Len(s) |-> IF s[i] = a THEN b ELSE s[i]]

\* the longest prefix of s made of digits only
RECURSIVE DigitRun(_)
DigitRun(s) ==
    IF s # << >> /\ Head(s) \in Digits THEN <<Head(s)>> \o DigitRun(Tail(s))
    ELSE << >>

RECURSIVE DigitsToInt(_, _)
DigitsToInt(s, acc) ==
    IF s = << >> THEN acc ELSE DigitsToInt(Tail(s), acc * 10 + DigitVal(Head(s)))

\* re.search(r'\d+\.?\d*', s) followed by float(match.group())
RECURSIVE SearchNumber(_)
SearchNumber(s) ==
    IF s = << >> THEN None
    ELSE IF Head(s) \in Digits
         THEN LET ip   == DigitRun(s)
                  rest == Drop(s, Len(ip))
                  fp   == IF rest # << >> /\ Head(rest) = "."
                          THEN DigitRun(Tail(rest)) ELSE << >>
              IN Some(Normalize([n |-> DigitsToInt(ip \o fp, 0), d |-> Len(fp)]))
         ELSE SearchNumber(Tail(s))

\* BaseScraper._parse_price
_parse_price(price_text) ==
    LET lowered  == Lower(price_text)
        stripped == Strip(StripTokens(lowered))
        nodots   == RemoveChar(stripped, ".")
        pointed  == ReplaceChar(nodots, ",", ".")
    IN SearchNumber(pointed)

_is_promotional_le(original_price, current_price) ==
    IF IsNone(original_price) \/ FloatIsZero(Val(original_price)) THEN FALSE
    ELSE ~FloatLess(Val(original_price), current_price)

\* BaseScraper._is_promotional: "if not original_price" is true for None and 0.0
_is_promotional(original_price, current_price) ==
    IF IsNone(original_price) \/ FloatIsZero(Val(original_price)) THEN FALSE
    ELSE FloatLess(current_price, Val(original_price))

\* ------------------------------------------------------------- documents
RetailerIds == {"emag", "altex", "carrefour", "kaufland", "selgros"}

\* BASE_URL of each scraper class
BASE_URL ==
    [r \in RetailerIds |->
        CASE r = "emag"      -> "https://www.emag.ro"
          [] r = "altex"     -> "https://www.altex.ro"
          [] r = "carrefour" -> "https://www.carrefour.ro"
          [] r = "kaufland"  -> "https://www.kaufland.ro"
          [] r = "selgros"   -> "https://www.selgros.ro"]

\* retailer= argument of PriceCreate in each scraper class
RetailerName ==
    [r \in RetailerIds |->
        CASE r = "emag"      -> "eMAG"
          [] r = "altex"     -> "Altex"
          [] r = "carrefour" -> "Carrefour"
          [] r = "kaufland"  -> "Kaufland"
          [] r = "selgros"   -> "Selgros"]

\* A URL is [origin, path]; the empty string '' is EmptyUrl.  An href with
\* origin "" is relative, any other origin starts with "http".
EmptyUrl == [origin |-> "", path |-> 0]

\* What the name/link selectors of an extractor find in a product element:
\*   "none"   : no name element and no anchor
\*   "nohref" : a name element (a heading, or an anchor with no href
\*              attribute) and no anchor carrying an href
\*   "href"   : an anchor that is the name element and carries the href
NoLink == [kind |-> "none", origin |-> "", path |-> 0]
NameOnly == [kind |-> "nohref", origin |-> "", path |-> 0]
Href(o, p) == [kind |-> "href", origin |-> o, path |-> p]

Links == {NoLink, NameOnly, Href("", 1), Href("", 2), Href("https://www.emag.ro", 1)}

T_na == <<"n", "/", "a">>
T_0 == <<"0", " ", "l", "e", "i">>
T_80 == <<"8", "0", " ", "l", "e", "i">>
T_7999 == <<"7", "9", ",", "9", "9", " ", "L", "e", "i">>
T_100 == <<"1", "0", "0", " ", "R", "O", "N">>
T_1234 == <<"1", ".", "2", "3", "4", ",", "5", "6", " ", "R", "O", "N">>
T_50 == <<"5", "0">>

PriceElems == {None, Some(T_na), Some(T_0), Some(T_80)}
DecimalElems == {None, Some(T_50)}
OldElems == {None, Some(T_na), Some(T_0), Some(T_7999), Some(T_80), Some(T_100)}

\* One located product element (search results) or one detail page: the text
\* of the element each selector chain finds, None when it finds nothing.
Entries ==
    [link : Links, price : PriceElems, decimal : DecimalElems,
     old : OldElems, badge : BOOLEAN]

\* the entries used in documents of more than one element
DocEntries ==
    [link : Links, price : {None, Some(T_80)}, decimal : {None},
     old : {None, Some(T_100)}, badge : {FALSE}]

SeqsUpTo(S, n) == UNION {[1..k -> S] : k \in 0..n}

Docs == {<<e>> : e \in Entries} \cup SeqsUpTo(DocEntries, MaxEntries)

\* the response bodies the coordinator runs see
D_good == [link |-> Href("", 1), price |-> Some(T_80), decimal |-> None,
           old |-> Some(T_100), badge |-> FALSE]
D_bad == [link |-> Href("", 2), price |-> None, decimal |-> None,
          old |-> None, badge |-> FALSE]
CoordDocs == {<< >>, <<D_bad, D_good>>}

\* the detail pages the coordinator runs see
CoordPages == {D_good, D_bad}

\* product_url arguments of get_product_price
ProductUrls == {[origin |-> "https://www.emag.ro", path |-> 1]}

\* ------------------------------------------------------------ extractors
\* product_url resolution: "if product_url and not product_url.startswith('http')"
ResolveUrl(r, link) ==
    IF link.kind # "href" THEN EmptyUrl
    ELSE IF link.origin = "" THEN [origin |-> BASE_URL[r], path |-> link.path]
    ELSE [origin |-> link.origin, path |-> link.path]

\* "if not price": None and 0.0 are both falsy
Falsy(opt) == IsNone(opt) \/ FloatIsZero(Val(opt))

PromoByOldPrice_le(original_price, price) ==
    ~Falsy(original_price) /\ ~FloatLess(Val(original_price), price)

\* the inline test "original_price and price < original_price" of the
\* search-result extractors
PromoByOldPrice(original_price, price) ==
    ~Falsy(original_price) /\ FloatLess(price, Val(original_price))

\* the Field(gt=0) constraints of PriceBase on price and original_price
PriceCreateValid(price, original_price) ==
    /\ ~FloatIsZero(price)
    /\ IsNone(original_price) \/ ~FloatIsZero(Val(original_price))

\* PriceCreate(...): the record, or None when validation raises inside the
\* extraction's try block
PriceCreate(r, price, original_price, url, is_promotional) ==
    IF PriceCreateValid(price, original_price)
    THEN Some([retailer |-> RetailerName[r], price |-> price,
               original_price |-> original_price, url |-> url,
               is_promotional |-> is_promotional])
    ELSE None

\* price_text of the extractors that join an integer and a decimal element
JoinDecimal(price_text, decimal) ==
    IF IsNone(decimal) THEN price_text
    ELSE price_text \o <<",">> \o Strip(Val(decimal))

OldPrice(e) == IF IsNone(e.old) THEN None ELSE _parse_price(Val(e.old))

\* EmagScraper._extract_product_data
Emag_extract_product_data(e) ==
    IF e.link.kind = "none" THEN None
    ELSE LET product_url == ResolveUrl("emag", e.link)
         IN IF product_url = EmptyUrl THEN None
            ELSE IF IsNone(e.price) THEN None
            ELSE LET price == _parse_price(Strip(Val(e.price)))
                 IN IF Falsy(price) THEN None
                    ELSE LET original_price == OldPrice(e)
                             is_promotional ==
                                 PromoByOldPrice(original_price, Val(price))
                         IN PriceCreate("emag", Val(price), original_price,
                                        product_url, is_promotional)

\* AltexScraper._extract_product_data
Altex_extract_product_data(e) ==
    IF e.link.kind = "none" THEN None
    ELSE LET product_url == ResolveUrl("altex", e.link)
         IN IF IsNone(e.price) THEN None
            ELSE LET price ==
                         _parse_price(JoinDecimal(Strip(Val(e.price)), e.decimal))
                 IN IF Falsy(price) THEN None
                    ELSE LET original_price == OldPrice(e)
                             is_promotional ==
                                 PromoByOldPrice(original_price, Val(price))
                         IN PriceCreate("altex", Val(price), original_price,
                                        product_url, is_promotional)

\* CarrefourScraper._extract_product_data (e.price is the text of the price
\* element, or its data-price attribute when the text is empty)
Carrefour_extract_product_data(e) ==
    IF e.link.kind = "none" THEN None
    ELSE LET product_url == ResolveUrl("carrefour", e.link)
         IN IF IsNone(e.price) THEN None
            ELSE LET price == _parse_price(Strip(Val(e.price)))
                 IN IF Falsy(price) THEN None
                    ELSE LET original_price == OldPrice(e)
                             by_price ==
                                 PromoByOldPrice(original_price, Val(price))
                             \* promotion_text is set exactly when by_price
                             is_promotional ==
                                 IF e.badge /\ ~by_price THEN TRUE ELSE by_price
                         IN PriceCreate("carrefour", Val(price), original_price,
                                        product_url, is_promotional)

\* KauflandScraper._extract_product_data
Kaufland_extract_product_data(e) ==
    IF e.link.kind = "none" THEN None
    ELSE LET product_url == ResolveUrl("kaufland", e.link)
         IN IF IsNone(e.price) THEN None
            ELSE LET price ==
                         _parse_price(JoinDecimal(Strip(Val(e.price)), e.decimal))
                 IN IF Falsy(price) THEN None
                    ELSE LET original_price == OldPrice(e)
                             by_price ==
                                 PromoByOldPrice(original_price, Val(price))
                             is_promotional == IF e.badge THEN TRUE ELSE by_price
                         IN PriceCreate("kaufland", Val(price), original_price,
                                        product_url, is_promotional)

\* SelgrosScraper._extract_product_data
Selgros_extract_product_data(e) ==
    IF e.link.kind = "none" THEN None
    ELSE LET product_url == ResolveUrl("selgros", e.link)
         IN IF IsNone(e.price) THEN None
            ELSE LET price == _parse_price(Strip(Val(e.price)))
                 IN IF Falsy(price) THEN None
                    ELSE LET original_price == OldPrice(e)
                             by_price ==
                                 PromoByOldPrice(original_price, Val(price))
                             is_promotional == IF e.badge THEN TRUE ELSE by_price
                         IN PriceCreate("selgros", Val(price), original_price,
                                        product_url, is_promotional)

_extract_product_data(r, e) ==
    CASE r = "emag"      -> Emag_extract_product_data(e)
      [] r = "altex"     -> Altex_extract_product_data(e)
      [] r = "carrefour" -> Carrefour_extract_product_data(e)
      [] r = "kaufland"  -> Kaufland_extract_product_data(e)
      [] r = "selgros"   -> Selgros_extract_product_data(e)

\* _extract_product_detail_data of the five scrapers: they differ only in
\* whether a decimal element is joined to the price text (Altex, Kaufland)
_extract_product_detail_data(r, page, url) ==
    IF IsNone(page.price) THEN None
    ELSE LET text  == IF r \in {"altex", "kaufland"}
                      THEN JoinDecimal(Strip(Val(page.price)), page.decimal)
                      ELSE Val(page.price)
             price == _parse_price(text)
         IN IF Falsy(price) THEN None
            ELSE LET original_price == OldPrice(page)
                     is_promotional ==
                         IF IsNone(page.old) THEN FALSE
                         ELSE _is_promotional(original_price, Val(price))
                 IN PriceCreate(r, Val(price), original_price, url, is_promotional)

Take_all(s, k) == s

\* s[:k]
Take(s, k) == SubSeq(s, 1, IF Len(s) < k THEN Len(s) ELSE k)

\* the loop of EmagScraper.search_product over products[:50]
RECURSIVE EmagLoop(_, _, _)
EmagLoop(products, seen_urls, prices) ==
    IF products = << >> THEN prices
    ELSE LET price_data == Emag_extract_product_data(Head(products))
         IN IF ~IsNone(price_data) /\ Val(price_data).url # EmptyUrl
            THEN IF Val(price_data).url \notin seen_urls
                 THEN LET appended == Append(prices, Val(price_data))
                      IN IF Len(appended) >= EmagTargetCount THEN appended
                         ELSE EmagLoop(Tail(products),
                                       seen_urls \cup {Val(price_data).url},
                                       appended)
                 ELSE EmagLoop(Tail(products), seen_urls, prices)
            ELSE EmagLoop(Tail(products), seen_urls, prices)

\* the loop of the other four search_product methods over products[:15]
RECURSIVE PlainLoop(_, _, _)
PlainLoop(r, products, prices) ==
    IF products = << >> THEN prices
    ELSE LET price_data == _extract_product_data(r, Head(products))
         IN IF ~IsNone(price_data)
            THEN PlainLoop(r, Tail(products), Append(prices, Val(price_data)))
            ELSE PlainLoop(r, Tail(products), prices)

\* search_product after a successful fetch: products is the list of located
\* product elements in document order
SearchParse(r, products) ==
    IF r = "emag" THEN EmagLoop(Take(products, EmagMaxProducts), {}, << >>)
    ELSE PlainLoop(r, Take(products, OtherMaxProducts), << >>)

\* ----------------------------------------------------------------- state
VARIABLES
    scrapers,      \* ScraperService.scrapers: the registered retailer ids
    mainpc,        \* position of the service call: idle, gathering,
                   \* awaiting, returned, raised
    call,          \* the service call and its arguments
    tasks,         \* the units of work of the call, in launch order
    all_results,   \* return value of search_all_retailers
    price_ret,     \* return value of ScraperService.get_product_price
    error,         \* the exception the service call raised, "none" if none
    scrape,        \* the call of ProductService.scrape_product_prices
    db,            \* the database session: products, the rows flushed in the
                   \* open transaction, the committed price rows, the commits
    pure,          \* a call of one function taken alone: arguments and
                   \* return value
    clock,         \* the time in seconds, when the delay sleep of each unit
                   \* is due and when each HTTP request was issued
    products       \* the rows of the products table and the create_product
                   \* calls, each with its position

vars == <<scrapers, mainpc, call, tasks, all_results, price_ret, error,
          scrape, db, pure, clock, products>>

\* the variables the scraping subsystem never touches
data_vars == <<scrape, db, pure, clock, products>>

\* insertion order of the keys of ScraperService.scrapers
RegistryOrder == <<"emag", "altex", "carrefour", "kaufland", "selgros">>

RECURSIVE FilterSeq(_, _)
FilterSeq(s, S) ==
    IF s = << >> THEN << >>
    ELSE IF Head(s) \in S THEN <<Head(s)>> \o FilterSeq(Tail(s), S)
    ELSE FilterSeq(Tail(s), S)

RegistryKeys_skip == Tail(FilterSeq(RegistryOrder, scrapers))

\* list(self.scrapers.keys())
RegistryKeys == FilterSeq(RegistryOrder, scrapers)

Range(s) == {s[i] : i \in 1..Len(s)}

\* the registry of the service as built: only "emag" is enabled
AsBuilt == {"emag"}

\* the registries with the first k entries of the dictionary enabled
PrefixRegistries ==
    {Range(SubSeq(RegistryOrder, 1, k)) : k \in 1..MaxRegistered}

\* the registries the service is built with: the first k entries of the
\* dictionary enabled, or "emag" with one other entry enabled
Registries == PrefixRegistries \cup {{"emag", r} : r \in RetailerIds}

NoCall == [op |-> "none", arg |-> None, retailers |-> << >>,
           retailer |-> "", url |-> EmptyUrl]

\* a unit of work before it starts running
NewUnit(r, op) ==
    [retailer |-> r, op |-> op, pc |-> "new", session |-> "none", sid |-> 0,
     slept |-> 0, requests |-> 0, backoffs |-> 0, outcome |-> "none",
     body |-> None, extracted |-> << >>, raised |-> "none", result |-> << >>]

\* no call of scrape_product_prices yet
NoScrape == [pc |-> "idle", product_id |-> 0, queue |-> << >>,
             total_saved |-> 0, ret |-> None, error |-> "none"]

\* the ids of the rows of the products table
ProductIds == {1}

\* a session with nothing flushed and no price row
EmptyDb == [products |-> ProductIds, pending |-> << >>, rows |-> << >>,
            commits |-> 0]

\* time 0, no sleep begun, no request issued
NoClock == [now |-> 0, due |-> << >>, issued |-> << >>]

\* the product the scrapes are asked for is stored, without a SKU; no
\* create_product call yet
NoProducts == [rows |-> <<[id |-> 1, sku |-> None]>>, calls |-> << >>]

\* no helper call
NoPure == [op |-> "none", args |-> << >>, ret |-> None]

\* the scraping subsystem before any call, built with one of the registries
InitScrapers(registries) ==
    /\ scrapers \in registries
    /\ mainpc = "idle"
    /\ call = NoCall
    /\ tasks = << >>
    /\ all_results = << >>
    /\ price_ret = None
    /\ error = "none"

Init ==
    /\ InitScrapers(PrefixRegistries)
    /\ scrape = NoScrape
    /\ db = EmptyDb
    /\ pure = NoPure
    /\ clock = NoClock
    /\ products = NoProducts

\* every extractor is registered in some initial state
InitExtract ==
    /\ InitScrapers(Registries)
    /\ scrape = NoScrape
    /\ db = EmptyDb
    /\ pure = NoPure
    /\ clock = NoClock
    /\ products = NoProducts

SessionOf_shared(i) == 1

\* the session in use by unit i: scraper_class() makes a scraper object of
\* its own for the unit, and __aenter__ a ClientSession of its own for that
\* object (sessions are numbered by the unit that opened them)
SessionOf(i) == i

\* --------------------------------------------------------- unit of work
\* _search_retailer / get_product_price up to the first suspension:
\* "async with scraper_class() as scraper" opens the session (__aenter__),
\* the extractor calls _make_request, which sleeps request_delay
UnitEnterStep(i) ==
    /\ tasks[i].pc = "new"
    /\ tasks' = [tasks EXCEPT ![i].pc = "sleeping", ![i].session = "open",
                              ![i].sid = SessionOf(i)]
    /\ UNCHANGED <<scrapers, mainpc, call, all_results, price_ret, error>>

\* the same, time left out
UnitEnter(i) ==
    /\ UnitEnterStep(i)
    /\ UNCHANGED data_vars

SleepsDone_skip(u) == u.slept

\* the delay sleeps a fetch call has completed once
\* "await asyncio.sleep(settings.request_delay)" is over
SleepsDone(u) == u.slept + 1

\* _make_request: the delay is over, the request is issued on the session
UnitWakeStep(i) ==
    /\ tasks[i].pc = "sleeping"
    /\ tasks' = [tasks EXCEPT ![i].pc = "requesting",
                              ![i].slept = SleepsDone(tasks[i]),
                              ![i].requests = @ + 1]
    /\ UNCHANGED <<scrapers, mainpc, call, all_results, price_ret, error>>

\* the same, time left out
UnitWake(i) ==
    /\ UnitWakeStep(i)
    /\ UNCHANGED data_vars

\* the statuses _make_request tells apart
HttpStatuses == {"200", "404", "429", "500"}

\* what the request can do: an HTTP response whose status is read (and, on
\* 200, whose text is read), the total timeout of the session ("timeout":
\* asyncio.TimeoutError), a response text that cannot be decoded
\* ("decode_error": UnicodeDecodeError from response.text()), the connect
\* timeout of the session ("connect_timeout": aiohttp's connection timeout
\* error, an aiohttp.ClientError), any other transport failure
\* ("client_error": aiohttp.ClientError)
FetchOutcomes ==
    HttpStatuses \cup {"timeout", "decode_error", "connect_timeout", "client_error"}

\* the outcomes that are instances of aiohttp.ClientError
ClientErrors == {"connect_timeout", "client_error"}

MakeRequestRaises_swallow(outcome) == "none"

MakeRequestRaises_timeout(outcome) ==
    IF outcome \in ClientErrors \cup {"timeout"}
    THEN "RetailerUnavailableException" ELSE "none"

\* the except clauses of _make_request for an outcome other than 200 and
\* 429: "none" when it returns None, else the exception it raises
MakeRequestRaises(outcome) ==
    IF outcome \in ClientErrors THEN "RetailerUnavailableException" ELSE "none"

\* the extractor operation on a fetched body: the located product elements
\* of a results page, or the one detail page
Extract(r, op, body, url) ==
    IF op = "search" THEN SearchParse(r, body)
    ELSE _extract_product_detail_data(r, body[1], url)

MakeRequestReturns_distinct(outcome, text) ==
    IF outcome \in {"200", "404"} THEN Some(text) ELSE None

\* the value _make_request returns for an outcome it does not raise on:
\* the response text on status 200, None otherwise
MakeRequestReturns(outcome, text) ==
    IF outcome = "200" THEN Some(text) ELSE None

\* _make_request after the request was issued, and, when it returns, the
\* rest of search_product / get_product_price up to the exit of the
\* "async with" block: text is the text of the response (read by the code
\* on status 200 only), body is the value _make_request returned (html),
\* "if not html" returns empty, else the parser runs
UnitRespond(i, bodies, pages) ==
    /\ tasks[i].pc = "requesting"
    /\ \E outcome \in FetchOutcomes :
          IF outcome = "429"
          THEN tasks' = [tasks EXCEPT ![i].pc = "backoff",
                                      ![i].outcome = outcome]
          ELSE LET texts == IF tasks[i].op = "search" THEN bodies
                            ELSE {<<page>> : page \in pages}
               IN \E text \in (IF outcome \in HttpStatuses THEN texts
                               ELSE {CHOOSE t \in texts : TRUE}) :
                     LET raises == MakeRequestRaises(outcome)
                         html   == IF raises # "none" THEN None
                                   ELSE MakeRequestReturns(outcome, text)
                     IN \E parser_raises \in
                              (IF IsNone(html) THEN {FALSE} ELSE BOOLEAN) :
                           tasks' =
                             [tasks EXCEPT
                                ![i].pc = "closing",
                                ![i].outcome = outcome,
                                ![i].body = html,
                                ![i].extracted =
                                    IF IsNone(html) \/ parser_raises THEN << >>
                                    ELSE Extract(tasks[i].retailer, tasks[i].op,
                                                 Val(html), call.url),
                                ![i].raised =
                                    IF raises # "none" THEN raises
                                    ELSE IF parser_raises THEN "Exception"
                                    ELSE "none"]
    /\ UNCHANGED <<scrapers, mainpc, call, all_results, price_ret, error>>
    /\ UNCHANGED data_vars

AfterBackoff_retry == "sleeping"

\* where _make_request goes after the backoff sleep of status 429: it
\* returns ("return None"), it does not loop
AfterBackoff == "closing"

\* _make_request on status 429: asyncio.sleep(10) is over, None is returned
\* and the extractor returns empty
UnitBackoffDone(i) ==
    /\ tasks[i].pc = "backoff"
    /\ tasks' = [tasks EXCEPT ![i].pc = AfterBackoff,
                              ![i].backoffs = @ + 1,
                              ![i].extracted = << >>]
    /\ UNCHANGED <<scrapers, mainpc, call, all_results, price_ret, error>>
    /\ UNCHANGED data_vars

\* the value a unit hands to its caller: _search_retailer catches every
\* exception and returns [], get_product_price lets it through
UnitResult(u) ==
    IF u.raised # "none" THEN << >> ELSE u.extracted

SessionAfterExit_leak(u) == IF u.raised # "none" THEN "open" ELSE "closed"

\* BaseScraper.__aexit__ closes the session whatever the block did
SessionAfterExit(u) == "closed"

\* __aexit__: session.close() is over; the unit ends
UnitExit(i) ==
    /\ tasks[i].pc = "closing"
    /\ tasks' = [tasks EXCEPT ![i].pc = "done",
                              ![i].session = SessionAfterExit(tasks[i]),
                              ![i].result = UnitResult(tasks[i])]
    /\ UNCHANGED <<scrapers, mainpc, call, all_results, price_ret, error>>
    /\ UNCHANGED data_vars

\* ----------------------------------------------------------- coordinator
\* the list comprehension of lines 60-63: one task per listed retailer that
\* is registered
RECURSIVE BuildTasks(_, _)
BuildTasks(retailers, registry) ==
    IF retailers = << >> THEN << >>
    ELSE IF Head(retailers) \in registry
         THEN <<NewUnit(Head(retailers), "search")>>
                  \o BuildTasks(Tail(retailers), registry)
         ELSE BuildTasks(Tail(retailers), registry)

\* search_all_retailers up to "await asyncio.gather(...)"; arg is None or
\* Some(list)
SearchAllRetailersCall(arg) ==
    /\ mainpc = "idle"
    /\ LET retailers == IF IsNone(arg) \/ Val(arg) = << >>
                        THEN RegistryKeys ELSE Val(arg)
       IN /\ call' = [NoCall EXCEPT !.op = "search_all", !.arg = arg,
                                    !.retailers = retailers]
          /\ tasks' = BuildTasks(retailers, scrapers)
    /\ mainpc' = "gathering"
    /\ UNCHANGED <<scrapers, all_results, price_ret, error>>

\* search_all_retailers called by the router (a preview search)
SearchAllRetailers(arg) ==
    /\ SearchAllRetailersCall(arg)
    /\ UNCHANGED data_vars

GatherDone_first == \E i \in 1..Len(tasks) : tasks[i].pc = "done"

\* asyncio.gather(*tasks, return_exceptions=True) is over
GatherDone == \A i \in 1..Len(tasks) : tasks[i].pc = "done"

\* the loop of lines 68-77 from index i on: results[i] raises IndexError
\* when fewer tasks were launched than retailers were listed
RECURSIVE CombineLoop(_, _, _, _)
CombineLoop(retailers, results, i, acc) ==
    IF i > Len(retailers) THEN [raised |-> "none", map |-> acc]
    ELSE IF i > Len(results) THEN [raised |-> "IndexError", map |-> acc]
    ELSE CombineLoop(retailers, results, i + 1, (retailers[i] :> results[i]) @@ acc)

\* search_all_retailers after the gather
Combine ==
    /\ mainpc = "gathering"
    /\ GatherDone
    /\ LET results == [i \in 1..Len(tasks) |-> tasks[i].result]
           out     == CombineLoop(call.retailers, results, 1, << >>)
       IN IF out.raised = "none"
          THEN /\ mainpc' = "returned"
               /\ all_results' = out.map
               /\ error' = "none"
          ELSE /\ mainpc' = "raised"
               /\ error' = out.raised
               /\ UNCHANGED all_results
    /\ UNCHANGED <<scrapers, call, tasks, price_ret>>
    /\ UNCHANGED data_vars

Registered_any(retailer) == TRUE

\* self.scrapers.get(retailer) finds a scraper class
Registered(retailer) == retailer \in scrapers

\* ScraperService.get_product_price up to the first suspension
GetProductPrice(retailer, product_url) ==
    /\ mainpc = "idle"
    /\ call' = [NoCall EXCEPT !.op = "get_product_price",
                              !.retailer = retailer, !.url = product_url]
    /\ IF ~Registered(retailer)
       THEN /\ mainpc' = "raised"
            /\ error' = "ValueError"
            /\ UNCHANGED tasks
       ELSE /\ mainpc' = "awaiting"
            /\ tasks' = <<NewUnit(retailer, "detail")>>
            /\ UNCHANGED error
    /\ UNCHANGED <<scrapers, all_results, price_ret>>
    /\ UNCHANGED data_vars

\* ScraperService.get_product_price: the "async with" block is left
GetProductPriceDone ==
    /\ mainpc = "awaiting"
    /\ tasks[1].pc = "done"
    /\ IF tasks[1].raised # "none"
       THEN /\ mainpc' = "raised"
            /\ error' = tasks[1].raised
            /\ UNCHANGED price_ret
       ELSE /\ mainpc' = "returned"
            /\ price_ret' = tasks[1].result
            /\ UNCHANGED error
    /\ UNCHANGED <<scrapers, call, tasks, all_results>>
    /\ UNCHANGED data_vars

\* ------------------------------------------------------- specifications
\* the retailers argument: omitted (None) or an explicit list
SearchArgs == {None} \cup {Some(l) : l \in SeqsUpTo(RetailerIds, MaxRequested)}

Next ==
    \/ \E arg \in SearchArgs : SearchAllRetailers(arg)
    \/ \E r \in RetailerIds, u \in ProductUrls : GetProductPrice(r, u)
    \/ \E i \in 1..Len(tasks) : UnitEnter(i)
    \/ \E i \in 1..Len(tasks) : UnitWake(i)
    \/ \E i \in 1..Len(tasks) : UnitRespond(i, CoordDocs, CoordPages)
    \/ \E i \in 1..Len(tasks) : UnitBackoffDone(i)
    \/ \E i \in 1..Len(tasks) : UnitExit(i)
    \/ Combine
    \/ GetProductPriceDone

Spec == Init /\ [][Next]_vars

\* the response bodies of the runs that are checked for termination: a
\* results page with no product element, a detail page with no price
LiveDocs == {<< >>}
LivePages == {D_bad}

\* the next step of unit i, whatever it is
UnitStep(i) ==
    /\ i \in 1..Len(tasks)
    /\ \/ UnitEnter(i)
       \/ UnitWake(i)
       \/ UnitRespond(i, LiveDocs, LivePages)
       \/ UnitBackoffDone(i)
       \/ UnitExit(i)

\* the most units a call can launch: one per listed or registered retailer
MaxUnits == IF MaxRequested > MaxRegistered THEN MaxRequested ELSE MaxRegistered

NextLive ==
    \/ \E arg \in SearchArgs : SearchAllRetailers(arg)
    \/ \E r \in RetailerIds, u \in ProductUrls : GetProductPrice(r, u)
    \/ \E i \in 1..MaxUnits : UnitStep(i)
    \/ Combine
    \/ GetProductPriceDone

\* The event loop runs every task that is ready: a sleep that is due ends,
\* a request that was issued gets its response, failure or timeout, a
\* session that is being closed gets closed, and the caller of gather or of
\* the "async with" block resumes once what it awaits is done.
Fairness ==
    /\ \A i \in 1..MaxUnits : WF_vars(UnitStep(i))
    /\ WF_vars(Combine)
    /\ WF_vars(GetProductPriceDone)

SpecLive == Init /\ [][NextLive]_vars /\ Fairness

\* ------------------------------------------------------------------ time
\* settings.request_delay, in seconds
RequestDelay == 2

\* the time up to which the runs are followed
MaxTime == 4

\* a second passes while a search is under way
Tick ==
    /\ mainpc = "gathering"
    /\ clock.now < MaxTime
    /\ clock' = [clock EXCEPT !.now = @ + 1]
    /\ UNCHANGED <<scrapers, mainpc, call, tasks, all_results, price_ret, error,
                   scrape, db, pure, products>>

\* unit i opens its session and begins asyncio.sleep(settings.request_delay)
TimedEnter(i) ==
    /\ UnitEnterStep(i)
    /\ clock' = [clock EXCEPT !.due = (i :> clock.now + RequestDelay) @@ @]
    /\ UNCHANGED <<scrape, db, pure, products>>

\* the sleep of unit i lasted request_delay or longer: the request is issued
TimedWake(i) ==
    /\ i \in DOMAIN clock.due
    /\ clock.now >= clock.due[i]
    /\ UnitWakeStep(i)
    /\ clock' = [clock EXCEPT !.issued = Append(@, clock.now)]
    /\ UNCHANGED <<scrape, db, pure, products>>

NextTimed ==
    \/ \E arg \in SearchArgs : SearchAllRetailers(arg)
    \/ Tick
    \/ \E i \in 1..Len(tasks) : TimedEnter(i)
    \/ \E i \in 1..Len(tasks) : TimedWake(i)
    \/ \E i \in 1..Len(tasks) : UnitRespond(i, LiveDocs, LivePages)
    \/ \E i \in 1..Len(tasks) : UnitBackoffDone(i)
    \/ \E i \in 1..Len(tasks) : UnitExit(i)
    \/ Combine

SpecTimed == Init /\ [][NextTimed]_vars

\* one extractor at a time, on every document
NextExtract ==
    \/ \E r \in scrapers : SearchAllRetailers(Some(<<r>>))
    \/ \E r \in scrapers, u \in ProductUrls : GetProductPrice(r, u)
    \/ \E i \in 1..Len(tasks) : UnitEnter(i)
    \/ \E i \in 1..Len(tasks) : UnitWake(i)
    \/ \E i \in 1..Len(tasks) : UnitRespond(i, Docs, Entries)
    \/ \E i \in 1..Len(tasks) : UnitBackoffDone(i)
    \/ \E i \in 1..Len(tasks) : UnitExit(i)
    \/ Combine
    \/ GetProductPriceDone

SpecExtract == InitExtract /\ [][NextExtract]_vars

\* ------------------------------------------------------------ data layer
\* the keys of the dict built from the list of retailers, in insertion
\* order (a key assigned twice keeps its first position)
RECURSIVE DictKeys(_, _)
DictKeys(retailers, seen) ==
    IF retailers = << >> THEN << >>
    ELSE IF Head(retailers) \in seen THEN DictKeys(Tail(retailers), seen)
    ELSE <<Head(retailers)>>
             \o DictKeys(Tail(retailers), seen \cup {Head(retailers)})

\* the records the two loops of scrape_product_prices visit, in order:
\* "for retailer, prices in results.items(): for price_data in prices"
RECURSIVE Items(_, _)
Items(keys, results) ==
    IF keys = << >> THEN << >>
    ELSE results[Head(keys)] \o Items(Tail(keys), results)

\* Price(**price_data.model_dump()) after "price_data.product_id = product_id"
Row(price_data, product_id) ==
    [product_id |-> product_id, retailer |-> price_data.retailer,
     price |-> price_data.price, original_price |-> price_data.original_price,
     url |-> price_data.url, is_promotional |-> price_data.is_promotional]

\* the product_id arguments: the product that exists and one that does not
RequestedProductIds == ProductIds \cup {2}

\* the retailers argument of scrape_product_prices
ScrapeArgs == {None} \cup {Some(<<r>>) : r \in RetailerIds}

\* the results pages the searches of scrape_product_prices see
D_other == [link |-> Href("", 2), price |-> Some(T_80), decimal |-> None,
            old |-> None, badge |-> FALSE]
ScrapeDocs == {<< >>, <<D_bad, D_good>>, <<D_good, D_other>>}

ProductMissing_never(product_id) == FALSE

\* "product = await self.product_repo.get_by_id(product_id)" finds no row
ProductMissing(product_id) == product_id \notin db.products

\* scrape_product_prices up to the gather of search_all_retailers: the
\* product is looked up, then the search is started
ScrapeProductPrices(product_id, retailers) ==
    /\ scrape.pc = "idle"
    /\ mainpc = "idle"
    /\ IF ProductMissing(product_id)
       THEN /\ scrape' = [NoScrape EXCEPT !.pc = "raised",
                                          !.product_id = product_id,
                                          !.error = "ProductNotFoundException"]
            /\ UNCHANGED <<scrapers, mainpc, call, tasks, all_results,
                           price_ret, error>>
       ELSE /\ scrape' = [NoScrape EXCEPT !.pc = "searching",
                                          !.product_id = product_id]
            /\ SearchAllRetailersCall(retailers)
    /\ UNCHANGED <<db, pure, clock, products>>

\* search_all_retailers is over: its exception goes through, or the
\* saving loop starts with total_saved = 0
ScrapeResults ==
    /\ scrape.pc = "searching"
    /\ mainpc \in {"returned", "raised"}
    /\ IF mainpc = "raised"
       THEN scrape' = [scrape EXCEPT !.pc = "raised", !.error = error]
       ELSE scrape' = [scrape EXCEPT
                         !.pc = "saving",
                         !.queue = Items(DictKeys(call.retailers, {}), all_results),
                         !.total_saved = 0]
    /\ UNCHANGED <<scrapers, mainpc, call, tasks, all_results, price_ret, error,
                   db, pure, clock, products>>

\* the row as the INSERT of the flush stores it: scraped_at is filled by the
\* server default func.now()
Stamp(row, now) == [scraped_at |-> now] @@ row

\* the row as it was handed to the session
Unstamped(row) == [f \in DOMAIN row \ {"scraped_at"} |-> row[f]]

\* one turn of the saving loop: PriceRepository.create adds and flushes the
\* row, total_saved += 1. The server's now() is the start time of the
\* transaction on PostgreSQL (the configured database_url), the same for
\* every row of the scrape; on a server that reads the clock per statement
\* it is that time or a later one.
ScrapeSave ==
    /\ scrape.pc = "saving"
    /\ scrape.queue # << >>
    /\ \E passed \in {0, 1} :
          /\ clock' = [clock EXCEPT !.now = @ + passed]
          /\ db' = [db EXCEPT !.pending =
                       Append(@, Stamp(Row(Head(scrape.queue), scrape.product_id),
                                       clock'.now))]
    /\ scrape' = [scrape EXCEPT !.queue = Tail(@), !.total_saved = @ + 1]
    /\ UNCHANGED <<scrapers, mainpc, call, tasks, all_results, price_ret, error,
                   pure, products>>

\* the loop is over: "await self.db.commit()" and "return total_saved"
ScrapeCommit ==
    /\ scrape.pc = "saving"
    /\ scrape.queue = << >>
    /\ db' = [db EXCEPT !.rows = @ \o db.pending, !.pending = << >>,
                        !.commits = @ + 1]
    /\ scrape' = [scrape EXCEPT !.pc = "returned", !.ret = Some(scrape.total_saved)]
    /\ UNCHANGED <<scrapers, mainpc, call, tasks, all_results, price_ret, error,
                   pure, clock, products>>

\* the rows of the product whose scraped_at is the latest of their retailer,
\* in the order of s
RECURSIVE SelectRows(_, _, _)
SelectRows(s, product_id, latest) ==
    IF s = << >> THEN << >>
    ELSE (IF Head(s).product_id = product_id
             /\ Head(s).scraped_at = latest[Head(s).retailer]
          THEN <<Head(s)>> ELSE << >>)
         \o SelectRows(Tail(s), product_id, latest)

\* the largest of a non-empty set of numbers
Max(S) == CHOOSE x \in S : \A y \in S : y <= x

\* PriceRepository.get_latest_by_product: the subquery gives max(scraped_at)
\* per retailer of the product, the join keeps every row of the product
\* whose retailer and scraped_at match a line of the subquery
get_latest_by_product(rows, product_id) ==
    LET mine == {k \in 1..Len(rows) : rows[k].product_id = product_id}
        max_scraped ==
            [r \in {rows[k].retailer : k \in mine} |->
                Max({rows[k].scraped_at : k \in {j \in mine : rows[j].retailer = r}})]
    IN SelectRows(rows, product_id, max_scraped)

\* min(available_prices, key=lambda p: p.price): the first row of lowest price
BestDeal(prices) ==
    prices[CHOOSE k \in 1..Len(prices) :
              /\ \A j \in 1..Len(prices) : ~FloatLess(prices[j].price, prices[k].price)
              /\ \A j \in 1..(k - 1) : FloatLess(prices[k].price, prices[j].price)]

\* max(price_values)
HighestPrice(prices) ==
    prices[CHOOSE k \in 1..Len(prices) :
              \A j \in 1..Len(prices) : ~FloatLess(prices[k].price, prices[j].price)].price

\* PriceService.get_price_comparison, a request of its own that reads the
\* committed rows: None for a missing product or without a price. The
\* documents carry no stock element, so every row has availability True;
\* the rounded statistics are left out.
GetPriceComparison(product_id) ==
    /\ pure.op = "none"
    /\ LET latest_prices == get_latest_by_product(db.rows, product_id)
           available_prices == latest_prices
       IN pure' = [op |-> "get_price_comparison", args |-> <<product_id>>,
                   ret |->
                     Some(IF product_id \notin db.products \/ latest_prices = << >>
                          THEN None
                          ELSE Some([product_id |-> product_id,
                                     lowest_price |-> BestDeal(available_prices).price,
                                     highest_price |-> HighestPrice(available_prices),
                                     retailers_count |-> Len(available_prices),
                                     best_deal |-> BestDeal(available_prices),
                                     all_prices |-> available_prices]))]
    /\ UNCHANGED <<scrapers, mainpc, call, tasks, all_results, price_ret, error,
                   scrape, db, clock, products>>

NextScrape ==
    \/ \E p \in RequestedProductIds, arg \in ScrapeArgs : ScrapeProductPrices(p, arg)
    \/ \E p \in RequestedProductIds : GetPriceComparison(p)
    \/ \E i \in 1..Len(tasks) : UnitEnter(i)
    \/ \E i \in 1..Len(tasks) : UnitWake(i)
    \/ \E i \in 1..Len(tasks) : UnitRespond(i, ScrapeDocs, CoordPages)
    \/ \E i \in 1..Len(tasks) : UnitBackoffDone(i)
    \/ \E i \in 1..Len(tasks) : UnitExit(i)
    \/ Combine
    \/ ScrapeResults
    \/ ScrapeSave
    \/ ScrapeCommit

SpecScrape == Init /\ [][NextScrape]_vars

\* ---------------------------------------------------- the helpers alone
\* Price texts in the Romanian format of the docstring of _parse_price:
\* the integer part with '.' between groups of three digits, an optional
\* ',' and two decimals, optional blanks, a currency token.
DigitChar(k) == <<"0", "1", "2", "3", "4", "5", "6", "7", "8", "9">>[k + 1]

RECURSIVE ToText(_)
ToText(k) ==
    IF k < 10 THEN <<DigitChar(k)>> ELSE ToText(k \div 10) \o <<DigitChar(k % 10)>>

Pad2(k) == <<DigitChar(k \div 10), DigitChar(k % 10)>>
Pad3(k) == <<DigitChar(k \div 100)>> \o Pad2(k % 100)

RECURSIVE Grouped(_)
Grouped(k) ==
    IF k < 1000 THEN ToText(k)
    ELSE Grouped(k \div 1000) \o <<".">> \o Pad3(k % 1000)

\* integer parts, and optional decimals in hundredths
IntParts == {0, 7, 80, 123, 1234, 12500, 2000000}
CentParts == {None} \cup {Some(c) : c \in {0, 5, 45, 50, 56, 99}}

Blanks == {<< >>, <<" ">>}
TokenTexts ==
    {<<"l", "e", "i">>, <<"L", "e", "i">>, <<"R", "O", "N">>, <<"r", "o", "n">>,
     <<"E", "U", "R">>}

RoPrices == [int : IntParts, cents : CentParts, blank : Blanks, token : TokenTexts]

\* the text of a price
RoText(x) ==
    Grouped(x.int)
        \o (IF IsNone(x.cents) THEN << >> ELSE <<",">> \o Pad2(Val(x.cents)))
        \o x.blank \o x.token

\* the decimal a price text denotes
RoValue(x) ==
    IF IsNone(x.cents) THEN [n |-> x.int, d |-> 0]
    ELSE Normalize([n |-> x.int * 100 + Val(x.cents), d |-> 2])

\* texts with no number in them
NonNumeric == {<< >>, T_na, <<" ">>, <<"l", "e", "i">>, <<"-", ",", "-">>}

PriceTexts == {RoText(x) : x \in RoPrices} \cup NonNumeric

\* the prices the extractors pass to _is_promotional: parsed price texts
PromoPrices ==
    {Val(_parse_price(t)) : t \in {T_0, T_7999, T_80, T_100, T_1234}}

PureCalls ==
    [op : {"_parse_price"}, args : {<<t>> : t \in PriceTexts}, ret : {None}]
        \cup [op : {"_is_promotional"},
              args : ({None} \cup {Some(f) : f \in PromoPrices}) \X PromoPrices,
              ret : {None}]

InitPure ==
    /\ InitScrapers({AsBuilt})
    /\ scrape = NoScrape
    /\ db = EmptyDb
    /\ pure \in PureCalls
    /\ clock = NoClock
    /\ products = NoProducts

\* self._parse_price(price_text) is called and returns
ParsePrice ==
    /\ pure.op = "_parse_price"
    /\ IsNone(pure.ret)
    /\ pure' = [pure EXCEPT !.ret = Some(_parse_price(pure.args[1]))]
    /\ UNCHANGED <<scrapers, mainpc, call, tasks, all_results, price_ret, error,
                   scrape, db, clock, products>>

\* self._is_promotional(original_price, current_price) is called and returns
IsPromotional ==
    /\ pure.op = "_is_promotional"
    /\ IsNone(pure.ret)
    /\ pure' = [pure EXCEPT !.ret = Some(_is_promotional(pure.args[1], pure.args[2]))]
    /\ UNCHANGED <<scrapers, mainpc, call, tasks, all_results, price_ret, error,
                   scrape, db, clock, products>>

NextPure == ParsePrice \/ IsPromotional

SpecPure == InitPure /\ [][NextPure]_vars

\* ------------------------------------------- the eMAG loop taken alone
\* most well-formed product elements in a long results document
MaxGood == 7

\* a product element the eMAG extractor gets a record from, linking to path p
GoodEntry(p) == [link |-> Href("", p), price |-> Some(T_80), decimal |-> None,
                 old |-> None, badge |-> FALSE]

\* copies of one element
Repeat(e, k) == [i \in 1..k |-> e]

\* g well-formed elements of paths 1..g in order, each found dup times in a row
RECURSIVE GoodRun(_, _, _)
GoodRun(from, g, dup) ==
    IF from > g THEN << >>
    ELSE Repeat(GoodEntry(from), dup) \o GoodRun(from + 1, g, dup)

\* how many elements without a price come first: none, one, and counts that
\* put the well-formed elements on both sides of products[:50]
BadPrefixes ==
    {0, 1} \cup ((EmagMaxProducts - 2 * MaxGood) .. (EmagMaxProducts + 1))

\* the located product elements of a results document
LongDoc(b, g, dup) == Repeat(D_bad, b) \o GoodRun(1, g, dup)

LongDocs == {LongDoc(b, g, dup) : b \in BadPrefixes, g \in 0..MaxGood, dup \in {1, 2}}

InitEmag ==
    /\ InitScrapers({AsBuilt})
    /\ scrape = NoScrape
    /\ db = EmptyDb
    /\ pure \in [op : {"search_product"}, args : {<<d>> : d \in LongDocs},
                 ret : {None}]
    /\ clock = NoClock
    /\ products = NoProducts

\* EmagScraper.search_product after the fetch returned the document: the loop
\* runs and the list of records is returned
EmagSearchProduct ==
    /\ pure.op = "search_product"
    /\ IsNone(pure.ret)
    /\ pure' = [pure EXCEPT !.ret = Some(SearchParse("emag", pure.args[1]))]
    /\ UNCHANGED <<scrapers, mainpc, call, tasks, all_results, price_ret, error,
                   scrape, db, clock, products>>

NextEmag == EmagSearchProduct

SpecEmag == InitEmag /\ [][NextEmag]_vars

\* ------------------------------------------------------- price history
\* most price rows of one product at one retailer within the period
MaxHistory == 3

\* prices in lei: a base price, and prices 5% and 10% above and below it
HistoryPrices == {90, 95, 100, 105, 110}

\* the rows of one product at one retailer within the last "days" days, one
\* per scrape, scraped_at counting the scrapes
HistoryRows ==
    UNION {{{[scraped_at |-> t, price |-> f[t]] : t \in 1..n} :
               f \in [1..n -> HistoryPrices]} : n \in 0..MaxHistory}

\* .order_by(Price.scraped_at): the rows by ascending scraped_at
RECURSIVE OrderByScrapedAt(_)
OrderByScrapedAt(rows) ==
    IF rows = {} THEN << >>
    ELSE LET first == CHOOSE r \in rows :
                          \A q \in rows : r.scraped_at <= q.scraped_at
         IN <<first>> \o OrderByScrapedAt(rows \ {first})

\* sum(p.price for p in prices)
RECURSIVE SumPrices(_)
SumPrices(prices) ==
    IF prices = << >> THEN 0 ELSE Head(prices).price + SumPrices(Tail(prices))

\* the trend of PriceService.get_price_history; the averages are compared
\* as fractions: a / h > (b / k) * 1.05  iff  a * k * 100 > b * h * 105
Trend(prices) ==
    IF Len(prices) >= 2
    THEN LET h == Len(prices) \div 2
             k == Len(prices) - h
             recent_sum == SumPrices(SubSeq(prices, 1, h))
             older_sum == SumPrices(SubSeq(prices, h + 1, Len(prices)))
         IN IF recent_sum * k * 100 > older_sum * h * 105 THEN "increasing"
            ELSE IF recent_sum * k * 100 < older_sum * h * 95 THEN "decreasing"
            ELSE "stable"
    ELSE "stable"

InitHistory ==
    /\ InitScrapers({AsBuilt})
    /\ scrape = NoScrape
    /\ db = EmptyDb
    /\ pure \in [op : {"get_price_history"}, args : {<<rows>> : rows \in HistoryRows},
                 ret : {None}]
    /\ clock = NoClock
    /\ products = NoProducts

\* PriceService.get_price_history: the repository query, then None when it
\* found no row, the PriceHistory (its prices and its trend) otherwise
GetPriceHistory ==
    /\ pure.op = "get_price_history"
    /\ IsNone(pure.ret)
    /\ LET prices == OrderByScrapedAt(pure.args[1])
       IN pure' = [pure EXCEPT !.ret =
                      Some(IF prices = << >> THEN None
                           ELSE Some([prices |-> prices, trend |-> Trend(prices)]))]
    /\ UNCHANGED <<scrapers, mainpc, call, tasks, all_results, price_ret, error,
                   scrape, db, clock, products>>

NextHistory == GetPriceHistory

SpecHistory == InitHistory /\ [][NextHistory]_vars

\* ------------------------------------------------------ create_product
\* most create_product calls under way together
MaxCreates == 2

\* the sku field of ProductCreate: absent, empty, or a code
Skus == {None, Some(""), Some("A"), Some("B")}

\* "if product_data.sku": a SKU that is present and not empty
Truthy(sku) == ~IsNone(sku) /\ Val(sku) # ""

\* ProductRepository.get_by_sku finds a row
SkuStored(sku) == \E k \in 1..Len(products.rows) : products.rows[k].sku = sku

\* the unique index on products.sku rejects the row: a row with the same
\* SKU is stored (NULLs never collide)
UniqueViolation(sku) == ~IsNone(sku) /\ SkuStored(sku)

\* create_product up to the flush: the SKU, when given, is looked up; the
\* call raises ValueError when a row has it, and goes on to
\* product_repo.create otherwise
CreateProduct(sku) ==
    /\ Len(products.calls) < MaxCreates
    /\ products' = [products EXCEPT !.calls =
                       Append(@, IF Truthy(sku) /\ SkuStored(sku)
                                 THEN [sku |-> sku, pc |-> "raised",
                                       error |-> "ValueError", id |-> 0]
                                 ELSE [sku |-> sku, pc |-> "creating",
                                       error |-> "none", id |-> 0])]
    /\ UNCHANGED <<scrapers, mainpc, call, tasks, all_results, price_ret, error,
                   scrape, db, pure, clock>>

\* ProductRepository.create of call i: add, flush (the INSERT, checked by the
\* unique index on sku), refresh; the product is returned. The commit of
\* the request's session is in core/database.py, which is not among the
\* sources: a row counts as stored from its INSERT.
CreateFlush(i) ==
    /\ products.calls[i].pc = "creating"
    /\ IF UniqueViolation(products.calls[i].sku)
       THEN products' = [products EXCEPT !.calls[i].pc = "raised",
                                         !.calls[i].error = "IntegrityError"]
       ELSE products' = [products EXCEPT
                           !.calls[i].pc = "returned",
                           !.calls[i].id = Len(products.rows) + 1,
                           !.rows = Append(@, [id |-> Len(products.rows) + 1,
                                               sku |-> products.calls[i].sku])]
    /\ UNCHANGED <<scrapers, mainpc, call, tasks, all_results, price_ret, error,
                   scrape, db, pure, clock>>

NextCreate ==
    \/ \E sku \in Skus : CreateProduct(sku)
    \/ \E i \in 1..Len(products.calls) : CreateFlush(i)

SpecCreate == Init /\ [][NextCreate]_vars

\* ---------------------------------------------------------------- claims
Units == 1..Len(tasks)
SearchOver == call.op = "search_all" /\ mainpc \in {"returned", "raised"}
Finished(u) == u.pc \in {"closing", "done"}

\* the fetch of a unit failed, or its extractor raised
UnitFailed(u) == Finished(u) /\ (u.outcome # "200" \/ u.raised # "none")

\* C1: every call of search_all_retailers returns a mapping with exactly one
\* entry per requested retailer identifier, no key missing and none extra,
\* the value being empty for a retailer that produced nothing.
C1_OneEntryPerRequested ==
    SearchOver =>
        /\ mainpc = "returned"
        /\ DOMAIN all_results = Range(call.retailers)
        /\ \A r \in Range(call.retailers) \ scrapers : all_results[r] = << >>

\* C2: when the unit of work of one retailer fails in any way,
\* search_all_retailers still completes without raising and the failing
\* retailer is mapped to an empty sequence.
C2_FailureIsolated ==
    (SearchOver /\ \E i \in Units : UnitFailed(tasks[i])) =>
        /\ mainpc = "returned"
        /\ \A i \in Units :
              (UnitFailed(tasks[i])
                 /\ \A j \in Units \ {i} : tasks[j].retailer # tasks[i].retailer)
              => all_results[tasks[i].retailer] = << >>

\* C3: search_all_retailers is a full barrier: when it returns (or raises)
\* every launched unit has completed, each having received the outcome of
\* its own fetch and closed its own session; no unit is left running or cut
\* short.
C3_FullBarrier ==
    SearchOver =>
        \A i \in Units :
            /\ tasks[i].pc = "done"
            /\ tasks[i].requests = 1
            /\ tasks[i].outcome # "none"

\* a search has returned after one unit failed and another delivered records
C3_Witness ==
    /\ SearchOver
    /\ \E i, j \in Units :
          /\ tasks[i].raised # "none"
          /\ tasks[j].result # << >>

\* C4: without an explicit retailer subset every registered retailer is
\* searched exactly once: the launched units and the keys of the returned
\* mapping are the registry keys, no duplicate, no omission.
C4_DefaultSubset ==
    (call.op = "search_all" /\ IsNone(call.arg)) =>
        /\ Len(tasks) = Cardinality(scrapers)
        /\ {tasks[i].retailer : i \in Units} = scrapers
        /\ mainpc # "raised"
        /\ mainpc = "returned" => DOMAIN all_results = scrapers

\* a default-subset search over a registry of two has returned
C4_Witness ==
    /\ call.op = "search_all" /\ IsNone(call.arg)
    /\ mainpc = "returned"
    /\ Cardinality(scrapers) >= 2

\* C6: every session opened for a unit is closed when the unit exits, and
\* once search_all_retailers or get_product_price has returned or raised no
\* session remains open.
C6_SessionsClosed ==
    \A i \in Units :
        /\ tasks[i].pc = "new" => tasks[i].session = "none"
        /\ tasks[i].pc = "done" => tasks[i].session = "closed"
        /\ mainpc \in {"returned", "raised"} => tasks[i].session = "closed"

\* get_product_price has raised the transport failure of its unit, whose
\* session is closed
C6_Witness ==
    /\ call.op = "get_product_price"
    /\ mainpc = "raised"
    /\ error = "RetailerUnavailableException"
    /\ tasks[1].session = "closed"

\* the fetch failures: every outcome but a 200 response whose text was read
FetchFailures == FetchOutcomes \ {"200"}

Searched(u) == u.op = "search" /\ Finished(u) /\ u.outcome = "200" /\ u.raised = "none"

\* C7: within one search_product call of any of the five extractors no two
\* returned records have the same URL.
C7_NoDuplicateUrl ==
    \A i \in Units :
        Searched(tasks[i]) =>
            \A a, b \in 1..Len(tasks[i].extracted) :
                a # b => tasks[i].extracted[a].url # tasks[i].extracted[b].url

\* the price an extractor reads from an entry: Altex and Kaufland join the
\* decimal element
EntryPrice(r, e) ==
    IF IsNone(e.price) THEN None
    ELSE IF r \in {"altex", "kaufland"}
         THEN _parse_price(JoinDecimal(Strip(Val(e.price)), e.decimal))
         ELSE _parse_price(Strip(Val(e.price)))

\* an entry with a product link and a parseable price whose record passes
\* the schema validation
WellFormed(r, e) ==
    /\ e.link.kind = "href"
    /\ ~Falsy(EntryPrice(r, e))
    /\ PriceCreateValid(Val(EntryPrice(r, e)), OldPrice(e))

WellFormedAt(r, doc) == {k \in 1..Len(doc) : WellFormed(r, doc[k])}

\* C8: an entry whose extraction fails (missing price, missing link, an
\* exception) is skipped and the entries after it are still emitted: a
\* document of n <= 5 entries of which k are well-formed with distinct URLs
\* yields exactly k records.
C8_SkipsMalformed ==
    \A i \in Units :
        Searched(tasks[i]) =>
            LET r   == tasks[i].retailer
                doc == Val(tasks[i].body)
                wf  == WellFormedAt(r, doc)
            IN (/\ Len(doc) <= 5
                /\ \A a, b \in wf :
                      a # b => ResolveUrl(r, doc[a].link) # ResolveUrl(r, doc[b].link))
               => Len(tasks[i].extracted) = Cardinality(wf)

\* C9: every record emitted by search_product has a parsed price and a
\* non-empty absolute URL.
C9_MandatoryFields ==
    \A i \in Units :
        Searched(tasks[i]) =>
            \A a \in 1..Len(tasks[i].extracted) :
                /\ tasks[i].extracted[a].url # EmptyUrl
                /\ tasks[i].extracted[a].url.origin # ""
                /\ ~FloatIsZero(tasks[i].extracted[a].price)

PromoInvariant(rec) ==
    rec.is_promotional =>
        /\ ~IsNone(rec.original_price)
        /\ FloatLess(rec.price, Val(rec.original_price))

Produced(u) == Finished(u) /\ u.outcome = "200" /\ u.raised = "none"

\* C10 as stated: every record produced by any extractor, from a search
\* entry or a detail page, has original_price present and greater than
\* price when is_promotional is true.
C10_PromoImpliesOldPrice ==
    \A i \in Units :
        Produced(tasks[i]) =>
            \A a \in 1..Len(tasks[i].extracted) :
                PromoInvariant(tasks[i].extracted[a])

\* the extractors whose search results honour a promotion badge
BadgeRetailers == {"carrefour", "kaufland", "selgros"}

\* C10 amended: a record with is_promotional true has original_price
\* present and greater than price, unless it comes from a Carrefour,
\* Kaufland or Selgros search entry in which a promotion badge was found.
C10_PromoImpliesOldPriceOrBadge ==
    \A i \in Units :
        Produced(tasks[i]) =>
            \A a \in 1..Len(tasks[i].extracted) :
                LET rec == tasks[i].extracted[a]
                IN \/ PromoInvariant(rec)
                   \/ /\ tasks[i].op = "search"
                      /\ tasks[i].retailer \in BadgeRetailers
                      /\ \E k \in 1..Len(Val(tasks[i].body)) :
                            /\ Val(tasks[i].body)[k].badge
                            /\ _extract_product_data(tasks[i].retailer,
                                                      Val(tasks[i].body)[k])
                                  = Some(rec)

\* a detail page with a higher old price has produced a promotional record
C10_Witness ==
    \E i \in Units :
        /\ tasks[i].op = "detail"
        /\ tasks[i].pc = "done"
        /\ tasks[i].result # << >>
        /\ tasks[i].result[1].is_promotional

\* C11: in every record produced by any extractor original_price is absent
\* or strictly greater than price; an old-price element whose parsed value is
\* less than or equal to the current price gives no record carrying it.
C11_OldPriceAbove ==
    \A i \in Units :
        Produced(tasks[i]) =>
            \A a \in 1..Len(tasks[i].extracted) :
                LET rec == tasks[i].extracted[a]
                IN \/ IsNone(rec.original_price)
                   \/ FloatLess(rec.price, Val(rec.original_price))

\* the entries of a fetched body whose price text parses to a positive number
Priced(r, doc) ==
    {k \in 1..Len(doc) :
        /\ ~IsNone(EntryPrice(r, doc[k]))
        /\ Val(EntryPrice(r, doc[k])).n > 0}

\* C12: every record produced by any extractor has price > 0; an entry whose
\* price text parses to zero or does not parse yields no record.
C12_PositivePrice ==
    \A i \in Units :
        Produced(tasks[i]) =>
            /\ \A a \in 1..Len(tasks[i].extracted) :
                  tasks[i].extracted[a].price.n > 0
            /\ Len(tasks[i].extracted)
                  <= Cardinality(Priced(tasks[i].retailer, Val(tasks[i].body)))

\* a search over a page whose only entry has a link and the price text
\* "0 lei" has finished with no record
C12_Witness ==
    \E i \in Units :
        /\ Searched(tasks[i])
        /\ Len(Val(tasks[i].body)) = 1
        /\ Val(tasks[i].body)[1].link.kind = "href"
        /\ Val(tasks[i].body)[1].price = Some(T_0)
        /\ tasks[i].extracted = << >>

\* C13: ScraperService.get_product_price called with an identifier that is
\* not in the registry raises the usage error (ValueError) to its caller,
\* before any session is opened and any request is issued.
C13_UnknownRetailerRaises ==
    (call.op = "get_product_price" /\ call.retailer \notin scrapers) =>
        /\ mainpc = "raised"
        /\ error = "ValueError"
        /\ tasks = << >>
        /\ price_ret = None

\* get_product_price was called for a retailer of the catalogue that is not
\* registered
C13_Witness ==
    /\ call.op = "get_product_price"
    /\ call.retailer \in RetailerIds \ scrapers
    /\ mainpc = "raised"

\* a fetch call that has received an HTTP response and is over
Classified(u) == Finished(u) /\ u.outcome \in HttpStatuses

FetchRaised(u) == IF IsNone(u.body) THEN u.raised ELSE "none"

C17_DelayBeforeRequest ==
    \A i \in Units :
        /\ tasks[i].requests <= tasks[i].slept
        /\ tasks[i].pc = "sleeping" => tasks[i].requests = 0
        /\ tasks[i].outcome # "none" => tasks[i].slept >= 1

\* a request is in flight
C17_Witness ==
    \E i \in Units :
        /\ tasks[i].pc = "requesting"
        /\ tasks[i].requests = 1
        /\ tasks[i].slept = 1

\* C18: _parse_price never raises: it returns the decimal a Romanian-format
\* text denotes ("D.DDD,DD", "DD,DD" or "DD" followed by a currency token,
\* '.' separating thousands and ',' the decimals), and None for an empty
\* text or a text without a number.
C18_ParsePrice ==
    (pure.op = "_parse_price" /\ ~IsNone(pure.ret)) =>
        /\ \A x \in RoPrices :
              RoText(x) = pure.args[1] => Val(pure.ret) = Some(RoValue(x))
        /\ pure.args[1] \in NonNumeric => Val(pure.ret) = None
        /\ \/ Val(pure.ret) = None
           \/ Val(pure.ret) \in {Some(RoValue(x)) : x \in RoPrices}

\* "1.234,56 RON" was parsed to 1234.56
C18_Witness ==
    /\ pure.op = "_parse_price"
    /\ pure.args = <<T_1234>>
    /\ pure.ret = Some(Some([n |-> 123456, d |-> 2]))

\* C19: _is_promotional(original, current) returns true exactly when
\* original is present and current < original (false when original is
\* absent, equal to current or below it), and changes nothing but its
\* return value.
C19_IsPromotional ==
    /\ [](pure.op = "_is_promotional" =>
            /\ IsNone(pure.ret) \/ Val(pure.ret) \in BOOLEAN
            /\ ~IsNone(pure.ret) =>
                  (Val(pure.ret) <=>
                     /\ ~IsNone(pure.args[1])
                     /\ Val(pure.args[1]).n * Pow10(pure.args[2].d)
                            > pure.args[2].n * Pow10(Val(pure.args[1]).d)))
    /\ [][pure.op = "_is_promotional" =>
            /\ pure'.op = pure.op
            /\ pure'.args = pure.args
            /\ UNCHANGED <<scrapers, mainpc, call, tasks, all_results,
                           price_ret, error, scrape, db, clock, products>>]_vars

\* _is_promotional(100.0, 80.0) has returned true
C19_Witness ==
    /\ pure.op = "_is_promotional"
    /\ pure.args = <<Some([n |-> 100, d |-> 0]), [n |-> 80, d |-> 0]>>
    /\ pure.ret = Some(TRUE)

RECURSIVE SumLen(_, _)
SumLen(results, keys) ==
    IF keys = {} THEN 0
    ELSE LET k == CHOOSE r \in keys : TRUE
         IN Len(results[k]) + SumLen(results, keys \ {k})

\* the committed rows are the records of the result mapping with product_id
\* set, one commit was made and the number of records was returned
SavedMapping ==
    /\ db.commits = 1
    /\ db.pending = << >>
    /\ Len(db.rows) = SumLen(all_results, DOMAIN all_results)
    /\ \A r \in DOMAIN all_results :
          \A a \in 1..Len(all_results[r]) :
              \E k \in 1..Len(db.rows) :
                  Unstamped(db.rows[k]) = Row(all_results[r][a], scrape.product_id)
    /\ \A k \in 1..Len(db.rows) : db.rows[k].product_id = scrape.product_id
    /\ scrape.ret = Some(SumLen(all_results, DOMAIN all_results))

\* a call of scrape_product_prices for an existing product is over
ScrapeOver ==
    /\ scrape.pc \in {"returned", "raised"}
    /\ scrape.product_id \in db.products

\* C20: scrape_product_prices for an existing product persists every record
\* of every retailer of the coordinator's result mapping with product_id
\* set to the requested product, commits once, after all records are
\* stored, and returns the number of records of the mapping.
C20_PersistsAll ==
    /\ db.commits <= 1
    /\ db.commits = 1 => scrape.pc = "returned" /\ scrape.queue = << >>
    /\ db.commits = 0 => db.rows = << >>
    /\ ScrapeOver => scrape.pc = "returned" /\ SavedMapping

\* the same for the calls whose search returned a mapping
C20_PersistsReturnedMapping ==
    /\ db.commits <= 1
    /\ db.commits = 1 => scrape.pc = "returned" /\ scrape.queue = << >>
    /\ db.commits = 0 => db.rows = << >>
    /\ (ScrapeOver /\ mainpc = "returned") => scrape.pc = "returned" /\ SavedMapping
    /\ (ScrapeOver /\ mainpc = "raised") => error = "IndexError"

\* a scrape over two retailers has saved three records
C20_SavedThree ==
    /\ scrape.pc = "returned"
    /\ Cardinality(DOMAIN all_results) = 2
    /\ scrape.ret = Some(3)

\* C21: within one search_all_retailers call exactly one unit of work is
\* launched for each selected (listed and registered) retailer: none is
\* searched twice, none is skipped, no other unit exists.
C21_OneUnitPerRetailer ==
    call.op = "search_all" =>
        /\ \A r \in Range(call.retailers) \cap scrapers :
              Cardinality({i \in Units : tasks[i].retailer = r}) = 1
        /\ \A i \in Units : tasks[i].retailer \in Range(call.retailers) \cap scrapers

\* C22: search_all_retailers always eventually returns, provided every
\* fetch eventually responds, fails or hits its timeout: no unit waits on
\* another and none loops or retries without bound.
C22_EventuallyReturns ==
    (call.op = "search_all") ~> (mainpc = "returned")

\* every call of search_all_retailers is eventually over: it returns, or it
\* raises the IndexError of its combining loop
C22_EventuallyOver ==
    (call.op = "search_all") ~> (mainpc \in {"returned", "raised"})

\* C23: the inter-request delay is a global throttle: within one
\* multi-retailer search no two HTTP requests, to the same or to different
\* retailers, are issued less than the configured delay apart.
C23_GlobalThrottle ==
    \A a, b \in 1..Len(clock.issued) :
        a < b => clock.issued[b] - clock.issued[a] >= RequestDelay

\* every request is issued request_delay or more after its own unit began
\* its delay sleep
C23_DelayPerFetchCall ==
    \A i \in Units :
        (i \in DOMAIN clock.due /\ tasks[i].requests = 1) =>
            \E a \in 1..Len(clock.issued) : clock.issued[a] >= clock.due[i]

\* the requested list holds an identifier that is not in the registry
HasUnregistered == call.op = "search_all" /\ Range(call.retailers) \ scrapers # {}

\* C24: when the requested list contains an identifier that is not in the
\* registry, no unit of work is launched for it and the other retailers are
\* unaffected: the call still returns, and each registered requested retailer
\* is mapped to the result of its own unit of work, never to another's.
C24_UnregisteredIgnored ==
    HasUnregistered =>
        /\ \A i \in Units : tasks[i].retailer \in scrapers
        /\ SearchOver =>
              /\ mainpc = "returned"
              /\ \A i \in Units :
                    (\A j \in Units \ {i} : tasks[j].retailer # tasks[i].retailer)
                    => /\ tasks[i].retailer \in DOMAIN all_results
                       /\ all_results[tasks[i].retailer] = UnitResult(tasks[i])

\* no unit of work is launched for an identifier that is not in the registry
C24_NoUnitForUnregistered ==
    HasUnregistered => \A i \in Units : tasks[i].retailer \in scrapers

\* C25: an HTTP request is only ever issued on a session that is open and
\* owned by the issuing unit of work: on every coordinator path the session
\* is opened before the unit's first fetch and closed only after its last,
\* and no two concurrent units share a session.
C25_OwnOpenSession ==
    /\ \A i \in Units :
          /\ tasks[i].pc \in {"sleeping", "requesting", "backoff", "closing"}
                => tasks[i].session = "open"
          /\ tasks[i].requests > 0 => tasks[i].session # "none"
          /\ tasks[i].session = "closed" => tasks[i].pc = "done"
          /\ tasks[i].session # "none" => tasks[i].sid = i
    /\ \A i, j \in Units :
          (i # j /\ tasks[i].session # "none" /\ tasks[j].session # "none")
          => tasks[i].sid # tasks[j].sid

\* two units of one search have a request in flight at the same time
C25_Witness ==
    /\ call.op = "search_all"
    /\ \E i, j \in Units :
          /\ i # j
          /\ tasks[i].pc = "requesting"
          /\ tasks[j].pc = "requesting"

\* the positions among the first 50 product elements whose extraction yields
\* a record with a URL that no earlier such element yields
FirstSeen(doc) ==
    {j \in 1..Len(doc) :
        /\ j <= 50
        /\ ~IsNone(Emag_extract_product_data(doc[j]))
        /\ \A k \in 1..(j - 1) :
              IsNone(Emag_extract_product_data(doc[k]))
              \/ Val(Emag_extract_product_data(doc[k])).url
                    # Val(Emag_extract_product_data(doc[j])).url}

\* the k-th smallest element of a set of numbers
KthSmallest(S, k) == CHOOSE j \in S : Cardinality({x \in S : x < j}) = k - 1

\* C26: EmagScraper.search_product returns at most 5 records: it processes at
\* most the first 50 located entries in document order and stops at the
\* fifth unique record; the records keep the document order.
C26_EmagAtMostFive ==
    (pure.op = "search_product" /\ ~IsNone(pure.ret)) =>
        LET doc == pure.args[1]
            ret == Val(pure.ret)
            F == FirstSeen(doc)
        IN /\ Len(ret) <= 5
           /\ Len(ret) = IF Cardinality(F) < 5 THEN Cardinality(F) ELSE 5
           /\ \A k \in 1..Len(ret) :
                 Some(ret[k]) = Emag_extract_product_data(doc[KthSmallest(F, k)])

\* search_product returned five records from a document of more than 50
\* elements whose first 50 hold more than five distinct products, with
\* repeated links
C26_Witness ==
    /\ pure.op = "search_product"
    /\ ~IsNone(pure.ret)
    /\ Len(pure.args[1]) > 50
    /\ Cardinality(FirstSeen(pure.args[1])) > 5
    /\ \E j \in 1..49 : pure.args[1][j] = pure.args[1][j + 1]
                          /\ pure.args[1][j] # D_bad
    /\ Len(Val(pure.ret)) = 5

\* a call of get_price_history has returned a PriceHistory
HistoryReturned ==
    pure.op = "get_price_history" /\ ~IsNone(pure.ret) /\ ~IsNone(Val(pure.ret))

\* the rows of the period scraped before (newer = FALSE) or from (newer =
\* TRUE) the point that splits them into len // 2 newer and the other older
Half(rows, newer) ==
    LET cut == Cardinality(rows) - (Cardinality(rows) \div 2)
    IN {r \in rows : (r.scraped_at > cut) = newer}

SumOf(rows) == SumPrices(OrderByScrapedAt(rows))

\* the average of the rows A is more than pct% of the average of the rows B
AvgAbove(A, B, pct) ==
    SumOf(A) * Cardinality(B) * 100 > SumOf(B) * Cardinality(A) * pct

\* C27: get_price_history reports the trend "increasing" exactly when the
\* average of the more recently scraped half of the period's prices is more
\* than 5% above the average of the older half, "decreasing" exactly when it
\* is more than 5% below, and "stable" otherwise, including when fewer than
\* 2 prices exist.
C27_TrendOfRecentHalf ==
    HistoryReturned =>
        LET rows == pure.args[1]
            recent == Half(rows, TRUE)
            older == Half(rows, FALSE)
            trend == Val(Val(pure.ret)).trend
        IN IF Cardinality(rows) < 2 THEN trend = "stable"
           ELSE /\ trend = "increasing" <=> AvgAbove(recent, older, 105)
                /\ trend = "decreasing" <=> ~AvgAbove(recent, older, 95)
                                             /\ SumOf(recent) * Cardinality(older) * 100
                                                  # SumOf(older) * Cardinality(recent) * 95
                /\ trend \in {"increasing", "decreasing", "stable"}

\* what the code reports: "increasing" exactly when the average of the
\* len // 2 oldest prices is more than 5% above the average of the others,
\* "decreasing" exactly when it is more than 5% below
C27_TrendOfOldestHalf ==
    HistoryReturned =>
        LET rows == pure.args[1]
            h == Cardinality(rows) \div 2
            oldest == {r \in rows : r.scraped_at <= h}
            others == rows \ oldest
            trend == Val(Val(pure.ret)).trend
        IN IF Cardinality(rows) < 2 THEN trend = "stable"
           ELSE /\ trend = "increasing" <=> AvgAbove(oldest, others, 105)
                /\ trend = "decreasing" <=> ~AvgAbove(oldest, others, 95)
                                             /\ SumOf(oldest) * Cardinality(others) * 100
                                                  # SumOf(others) * Cardinality(oldest) * 95
                /\ trend \in {"increasing", "decreasing", "stable"}

\* a call of get_price_comparison has returned a comparison
ComparisonReturned ==
    pure.op = "get_price_comparison" /\ ~IsNone(pure.ret) /\ ~IsNone(Val(pure.ret))

\* the retailers that have a stored price of the product
RetailersOf(product_id) ==
    {db.rows[k].retailer : k \in {j \in 1..Len(db.rows) :
                                     db.rows[j].product_id = product_id}}

\* C28: get_latest_by_product returns at most one price record per retailer,
\* the most recently scraped one, so retailers_count in the price comparison
\* is the number of distinct retailers with an available latest price; also
\* after a single scrape stored several records for one retailer and product.
C28_OneLatestPerRetailer ==
    ComparisonReturned =>
        LET c == Val(Val(pure.ret))
        IN /\ \A a, b \in 1..Len(c.all_prices) :
                 a # b => c.all_prices[a].retailer # c.all_prices[b].retailer
           /\ \A a \in 1..Len(c.all_prices) :
                 \A k \in 1..Len(db.rows) :
                     (db.rows[k].product_id = c.product_id
                        /\ db.rows[k].retailer = c.all_prices[a].retailer)
                     => db.rows[k].scraped_at <= c.all_prices[a].scraped_at
           /\ c.retailers_count = Cardinality(RetailersOf(c.product_id))

\* the same when no two rows of one retailer and product carry the same
\* scraped_at
C28_OneLatestPerStamp ==
    (ComparisonReturned
       /\ \A j, k \in 1..Len(db.rows) :
             (j # k /\ db.rows[j].retailer = db.rows[k].retailer
                /\ db.rows[j].product_id = db.rows[k].product_id)
             => db.rows[j].scraped_at # db.rows[k].scraped_at)
    => LET c == Val(Val(pure.ret))
       IN /\ \A a, b \in 1..Len(c.all_prices) :
                a # b => c.all_prices[a].retailer # c.all_prices[b].retailer
          /\ c.retailers_count = Cardinality(RetailersOf(c.product_id))

\* no two stored products share a non-empty SKU
UniqueSkus ==
    \A j, k \in 1..Len(products.rows) :
        (j # k /\ Truthy(products.rows[j].sku))
        => products.rows[j].sku # products.rows[k].sku

\* C29: after any interleaving of create_product calls no two stored
\* products share a non-empty SKU; a create_product whose SKU already
\* exists fails with the duplicate-SKU ValueError and leaves the stored
\* products unchanged.
C29_DuplicateSkuValueError ==
    /\ UniqueSkus
    /\ \A i \in 1..Len(products.calls) :
          LET c == products.calls[i]
          IN /\ (Truthy(c.sku) /\ c.pc = "raised") => c.error = "ValueError"
             /\ c.pc = "raised" => \A k \in 1..Len(products.rows) :
                                       products.rows[k].id # c.id
             /\ c.pc = "returned" => \E k \in 1..Len(products.rows) :
                                        products.rows[k] = [id |-> c.id, sku |-> c.sku]

\* the stored SKUs stay unique, and a call with a SKU fails only when another
\* row has its SKU, storing nothing
C29_UniqueSkuKept ==
    /\ UniqueSkus
    /\ \A i \in 1..Len(products.calls) :
          LET c == products.calls[i]
          IN (Truthy(c.sku) /\ c.pc = "raised") =>
                /\ c.error \in {"ValueError", "IntegrityError"}
                /\ \E k \in 1..Len(products.rows) :
                      products.rows[k].sku = c.sku /\ products.rows[k].id # c.id

\* C30: scrape_product_prices for a product id that does not exist fails
\* with ProductNotFoundException before any search or persistence: no fetch
\* is issued, no price record is stored and nothing is committed.
C30_MissingProductFailsFirst ==
    (scrape.pc # "idle" /\ scrape.product_id \notin db.products) =>
        /\ scrape.pc = "raised"
        /\ scrape.error = "ProductNotFoundException"
        /\ call = NoCall
        /\ tasks = << >>
        /\ db.pending = << >>
        /\ db.rows = << >>
        /\ db.commits = 0

\* scrape_product_prices was called for a product id that is not stored
C30_Witness ==
    /\ scrape.pc = "raised"
    /\ scrape.product_id = 2
    /\ scrape.error = "ProductNotFoundException"

====
